---- MODULE Spec2Model ----
(***************************************************************************)
(* State-machine model of LogUnifyLogger (src/src/index.ts): the singleton *)
(* and its configuration, the event buffer, the debounced flush timer and  *)
(* the asynchronous flush cycle with its retry loop.                       *)
(*                                                                         *)
(* JavaScript runs one handler at a time, so every action below is one     *)
(* run-to-completion piece of code: a whole setup(), get() or log() call,  *)
(* one timer callback, or the continuation of sendEvents() after the       *)
(* awaited makeRequest() has settled.  A started sendEvents() runs         *)
(* synchronously up to its first await, i.e. up to the axios.post of its   *)
(* first batch, inside the handler that called it.                         *)
(*                                                                         *)
(* Events are taken to be generated message objects: toObject(),           *)
(* serialize(), getSchemaName() and getProjectName() return normally.      *)
(* Each log() call is given a fresh identity 1, 2, 3, ...                   *)
(***************************************************************************)
EXTENDS Integers, Sequences, FiniteSets, TLC

\* ---------------------------------------------------------------- bounds
\* Number of log() calls in a run.
MaxEvents == 4
\* Number of setup() calls in a run.
MaxSetups == 2
\* Number of clock advances in a run.
MaxTicks == 2
\* Clock advances, in milliseconds: just past the default batchInterval,
\* and just past the default batchInterval taken as seconds.
ShortTick == 5001
LongTick == 5000001

\* ------------------------------------------------------ program constants
\* private maxUnsentEvents = 5000, scaled to keep the buffer enumerable.
maxUnsentEvents == 3
\* private maxBulkSize = 50, scaled (kept below maxUnsentEvents).
maxBulkSize == 2
\* private maxAttempts = 3.
maxAttempts == 3
\* private batchInterval = 5000 (milliseconds, as given to setTimeout).
DefaultBatchInterval == 5000
\* private minBatchSize = 10, scaled (kept at or below maxBulkSize).
DefaultMinBatchSize == 2
\* lastScheduled = -1: no timer has been armed yet.
NeverScheduled == -1
\* Date.now() / 1000.
MillisPerSecond == 1000

DefaultReceiverURL == "http://localhost:8081/api/events/_bulk"
\* The value of a property that an options object does not carry.
Undefined == "undefined"

VARIABLES
    instance,          \* LogUnifyLogger.instance != null
    apiKey, receiverURL, batchInterval, minBatchSize,
    events,            \* this.events
    isSendingEvents,   \* this.isSendingEvents
    lastScheduled,     \* this.lastScheduled, in thousandths of a second
    timers,            \* pending setTimeout callbacks: their due times (ms)
    cycles,            \* sendEvents() invocations suspended at await makeRequest
    now,               \* Date.now()
    nextId,            \* identity of the next logged event
    setups, ticks,     \* counters for MaxSetups and MaxTicks
    created,           \* history: runs of the LogUnifyLogger constructor
    posted,            \* history: events of the successfully posted batches
    streak,            \* history: log() calls in a row since the buffer was
                       \* empty with no flush running (Broken: another
                       \* handler has run since)
    lastOp             \* history: the handler that ran last and what it did

vars == <<instance, apiKey, receiverURL, batchInterval, minBatchSize, events,
          isSendingEvents, lastScheduled, timers, cycles, now, nextId,
          setups, ticks, created, posted, streak, lastOp>>

config == <<apiKey, receiverURL, batchInterval, minBatchSize>>

Min(a, b) == IF a < b THEN a ELSE b

\* ------------------------------------------------------------- options
\* An options object is a function from the property names it carries to
\* their values.
Has(o, f) == f \in DOMAIN o

\* The option objects handed to setup().  apiKey is required by the Options
\* type but a JavaScript caller may leave it out; 0 and "" are the falsy
\* values a caller can pass.
OptionsSet ==
    { [apiKey |-> "k1", receiverURL |-> "u1", minBatchSize |-> 1],
      [batchInterval |-> 10000],
      [apiKey |-> "", receiverURL |-> "", batchInterval |-> 0,
       minBatchSize |-> 0],
      [apiKey |-> "k1", minBatchSize |-> maxUnsentEvents + 1] }

\* options.f
Prop(o, f) == IF Has(o, f) THEN o[f] ELSE Undefined

\* JavaScript truthiness of options.f for a number-valued property.
TruthyNum(o, f) == Has(o, f) /\ o[f] # 0
\* JavaScript truthiness of options.f for a string-valued property.
TruthyStr(o, f) == Has(o, f) /\ o[f] # ""

\* ------------------------------------------------------------ the buffer
\* Variant: the drain leaves the array as it is (slice for splice).
spliceNothing(evs, n) == evs

\* this.events.slice(0, n)
slice(evs, n) == SubSeq(evs, 1, Min(n, Len(evs)))

\* Variant: the drain stops one event short of the batch.
spliceOneLess(evs, n) == SubSeq(evs, Min(n, Len(evs) + 1), Len(evs))

\* what this.events.splice(0, n) leaves in the array
splice(evs, n) == SubSeq(evs, Min(n, Len(evs)) + 1, Len(evs))

\* Variant: the purge is left out.
pushEventNoPurge(evs, e) == Append(evs, e)

\* Variant: the purge removes the newest event (pop) instead of the oldest.
pushEventDropNewest(evs, e) ==
    LET pushed == Append(evs, e)
    IN  IF Len(pushed) > maxUnsentEvents
        THEN SubSeq(pushed, 1, maxUnsentEvents) ELSE pushed

\* log(): push, then purge the oldest event when over maxUnsentEvents
pushEvent(evs, e) ==
    LET pushed == Append(evs, e)
    IN  IF Len(pushed) > maxUnsentEvents THEN splice(pushed, 1) ELSE pushed

\* log(): did the push overflow the buffer?
overflows(evs) == Len(evs) + 1 > maxUnsentEvents

\* Variant: no debounce, every log() call arms a timer.
shouldScheduleAlways(last, t, interval) == TRUE

\* log(): the debounce test before setTimeout.  lastScheduled holds
\* Date.now() / 1000, here kept as the numerator in thousandths, so
\* Date.now() / 1000 - lastScheduled > batchInterval reads
\* t - last > 1000 * batchInterval.
shouldSchedule(last, t, interval) ==
    \/ last = NeverScheduled
    \/ t - last > MillisPerSecond * interval

\* Variant: the size trigger fires one event late.
reachedMinBatchLate(evs, size) == Len(evs) > size

\* Variant: the size trigger is a threshold, not an equality.
reachedMinBatchAtLeast(evs, size) == Len(evs) >= size

\* log(): the size trigger
reachedMinBatch(evs, size) == Len(evs) = size

\* ------------------------------------------------------- the flush cycle
\* Variant: the guard on entry never skips.
otherBatchRunningNever(flag) == FALSE

\* sendEvents(): the guard on entry
otherBatchRunning(flag) == flag

\* Variant: the batch is the whole buffer, not capped at maxBulkSize.
firstAttemptWhole(evs, clean) ==
    [bulk |-> evs, attemptsLeft |-> maxAttempts - 1, posts |-> 1,
     clean |-> clean]

\* sendEvents(): a batch is taken and its first attempt is issued:
\*   bulk = slice(0, maxBulkSize); attemptsLeft = maxAttempts; --attemptsLeft;
\*   await makeRequest(bulk)
\* posts counts the transport calls made for this bulk; clean says that no
\* transport call of this invocation has failed so far.
firstAttempt(evs, clean) ==
    [bulk |-> slice(evs, maxBulkSize), attemptsLeft |-> maxAttempts - 1,
     posts |-> 1, clean |-> clean]

\* sendEvents(): the inner loop goes round after a failed attempt
nextAttempt(c) ==
    [c EXCEPT !.attemptsLeft = @ - 1, !.posts = @ + 1, !.clean = FALSE]

\* Variant: the inner loop allows one attempt more.
moreAttemptsInclusive(c) == c.attemptsLeft >= 0

\* sendEvents(): the inner loop condition
moreAttempts(c) == c.attemptsLeft > 0

\* Variant: the cycle never gives up on a batch.
gaveUpNever(c) == FALSE

\* sendEvents(): the test after the inner loop
gaveUp(c) == c.attemptsLeft = 0

RemoveAt(s, i) == SubSeq(s, 1, i - 1) \o SubSeq(s, i + 1, Len(s))

\* The value of streak once a handler other than log() has run (a count no
\* row of log() calls reaches).
Broken == MaxEvents + 1

\* streak after a handler: 0 when it leaves the buffer empty and no flush
\* running, one more after a log() call of an unbroken row, else Broken.
streakAfter(evs, flag, isLog) ==
    IF evs = <<>> /\ ~flag THEN 0
    ELSE IF isLog /\ streak # Broken THEN streak + 1
    ELSE Broken

NoOp ==
    [op |-> "init", event |-> 0, evicted |-> FALSE, armed |-> FALSE,
     immediate |-> FALSE, flush |-> "none", ok |-> FALSE, bulk |-> <<>>,
     posts |-> 0, ret |-> "none"]

\* Variant: the invocation does not raise isSendingEvents.
sendEventsCallNoFlag(evs) ==
    IF otherBatchRunning(isSendingEvents)
    THEN [flush |-> "skipped", flag |-> isSendingEvents, cycles |-> cycles]
    ELSE IF Len(evs) > 0
         THEN [flush |-> "started", flag |-> isSendingEvents,
               cycles |-> Append(cycles, firstAttempt(evs, TRUE))]
         ELSE [flush |-> "empty", flag |-> FALSE, cycles |-> cycles]

\* Variant: on an empty buffer the invocation returns with the flag raised.
sendEventsCallStuck(evs) ==
    IF otherBatchRunning(isSendingEvents)
    THEN [flush |-> "skipped", flag |-> isSendingEvents, cycles |-> cycles]
    ELSE IF Len(evs) > 0
         THEN [flush |-> "started", flag |-> TRUE,
               cycles |-> Append(cycles, firstAttempt(evs, TRUE))]
         ELSE [flush |-> "empty", flag |-> TRUE, cycles |-> cycles]

\* sendEvents() called on buffer evs: what it does up to its first await or
\* its return.  flush: "skipped" (guard), "started" (suspended at the first
\* makeRequest) or "empty" (nothing to send, returned at once).
sendEventsCall(evs) ==
    IF otherBatchRunning(isSendingEvents)
    THEN [flush |-> "skipped", flag |-> isSendingEvents, cycles |-> cycles]
    ELSE IF Len(evs) > 0
         THEN [flush |-> "started", flag |-> TRUE,
               cycles |-> Append(cycles, firstAttempt(evs, TRUE))]
         ELSE [flush |-> "empty", flag |-> FALSE, cycles |-> cycles]

\* ------------------------------------------------------------------ Init
Init ==
    /\ instance = FALSE
    /\ apiKey = Undefined
    /\ receiverURL = DefaultReceiverURL
    /\ batchInterval = DefaultBatchInterval
    /\ minBatchSize = DefaultMinBatchSize
    /\ events = <<>>
    /\ isSendingEvents = FALSE
    /\ lastScheduled = NeverScheduled
    /\ timers = <<>>
    /\ cycles = <<>>
    /\ now = 0
    /\ nextId = 1
    /\ setups = 0
    /\ ticks = 0
    /\ created = 0
    /\ posted = <<>>
    /\ streak = 0
    /\ lastOp = NoOp

\* --------------------------------------------------------------- actions
\* Variant: minBatchSize is taken whenever the options carry it, 0 included.
configureIfPresent(o) ==
    /\ apiKey' = Prop(o, "apiKey")
    /\ batchInterval' =
           IF TruthyNum(o, "batchInterval") THEN o["batchInterval"]
           ELSE batchInterval
    /\ minBatchSize' =
           IF Has(o, "minBatchSize") THEN o["minBatchSize"]
           ELSE minBatchSize
    /\ receiverURL' =
           IF TruthyStr(o, "receiverURL") THEN o["receiverURL"]
           ELSE receiverURL

\* configure(options)
configure(o) ==
    /\ apiKey' = Prop(o, "apiKey")
    /\ batchInterval' =
           IF TruthyNum(o, "batchInterval") THEN o["batchInterval"]
           ELSE batchInterval
    /\ minBatchSize' =
           IF TruthyNum(o, "minBatchSize") THEN o["minBatchSize"]
           ELSE minBatchSize
    /\ receiverURL' =
           IF TruthyStr(o, "receiverURL") THEN o["receiverURL"]
           ELSE receiverURL

\* Variant: the null test on the singleton always succeeds.
noInstanceAlways(inst) == TRUE

\* setup(), get(): this.instance == null
noInstance(inst) == ~inst

\* Variant: reconfiguring drops the pending timers.
SetupCancels(o) ==
    /\ setups < MaxSetups
    /\ setups' = setups + 1
    /\ instance' = TRUE
    /\ created' = IF noInstance(instance) THEN created + 1 ELSE created
    /\ configure(o)
    /\ lastOp' = [NoOp EXCEPT !.op = "setup",
                              !.ret = IF noInstance(instance) THEN "created"
                                      ELSE "existing"]
    /\ streak' = streakAfter(events, isSendingEvents, FALSE)
    /\ timers' = <<>>
    /\ UNCHANGED <<events, isSendingEvents, lastScheduled, cycles,
                   now, nextId, ticks, posted>>

\* static setup(options): the constructor assigns apiKey and calls
\* configure; on an existing instance only configure runs.
Setup(o) ==
    /\ setups < MaxSetups
    /\ setups' = setups + 1
    /\ instance' = TRUE
    /\ created' = IF noInstance(instance) THEN created + 1 ELSE created
    /\ configure(o)
    /\ lastOp' = [NoOp EXCEPT !.op = "setup",
                              !.ret = IF noInstance(instance) THEN "created"
                                      ELSE "existing"]
    /\ streak' = streakAfter(events, isSendingEvents, FALSE)
    /\ UNCHANGED <<events, isSendingEvents, lastScheduled, timers, cycles,
                   now, nextId, ticks, posted>>

\* static get(): throws before the first setup, else returns the instance
Get ==
    /\ lastOp' = [NoOp EXCEPT !.op = "get",
                              !.ret = IF noInstance(instance) THEN "throws"
                                      ELSE "instance"]
    /\ streak' = streakAfter(events, isSendingEvents, FALSE)
    /\ UNCHANGED <<instance, config, events, isSendingEvents, lastScheduled,
                   timers, cycles, now, nextId, setups, ticks, created,
                   posted>>

\* log(event)
Log ==
    /\ instance
    /\ nextId <= MaxEvents
    /\ LET e == nextId
           evs == pushEvent(events, e)
           arm == shouldSchedule(lastScheduled, now, batchInterval)
           imm == reachedMinBatch(evs, minBatchSize)
           call == sendEventsCall(evs)
       IN  /\ events' = evs
           /\ lastScheduled' = IF arm THEN now ELSE lastScheduled
           /\ timers' = IF arm THEN Append(timers, now + batchInterval)
                        ELSE timers
           /\ isSendingEvents' = IF imm THEN call.flag ELSE isSendingEvents
           /\ cycles' = IF imm THEN call.cycles ELSE cycles
           /\ lastOp' = [NoOp EXCEPT !.op = "log", !.event = e,
                                     !.evicted = overflows(events),
                                     !.armed = arm, !.immediate = imm,
                                     !.flush = IF imm THEN call.flush
                                               ELSE "none"]
    /\ streak' = streakAfter(events', isSendingEvents', TRUE)
    /\ nextId' = nextId + 1
    /\ UNCHANGED <<instance, config, now, setups, ticks, created, posted>>

\* A setTimeout callback runs: () => { this.sendEvents(); }
TimerFires(i) ==
    /\ timers[i] <= now
    /\ timers' = RemoveAt(timers, i)
    /\ LET call == sendEventsCall(events)
       IN  /\ isSendingEvents' = call.flag
           /\ cycles' = call.cycles
           /\ lastOp' = [NoOp EXCEPT !.op = "timer", !.flush = call.flush]
    /\ streak' = streakAfter(events, isSendingEvents', FALSE)
    /\ UNCHANGED <<instance, config, events, lastScheduled, now, nextId,
                   setups, ticks, created, posted>>

\* makeRequest of suspended invocation i settles (ok: the post resolved;
\* otherwise it threw) and sendEvents() runs on to its next await or return.
RequestSettles(i, ok) ==
    LET c == cycles[i]
        rest == RemoveAt(cycles, i)
        \* if (await this.makeRequest(bulk)) { this.events.splice(...) }
        evs == IF ok THEN splice(events, Len(c.bulk)) ELSE events
        done == [NoOp EXCEPT !.op = "settle", !.ok = ok, !.bulk = c.bulk,
                             !.posts = c.posts]
    IN  /\ posted' = IF ok THEN posted \o c.bulk ELSE posted
        /\ events' = evs
        /\ IF ~ok /\ moreAttempts(c)
           THEN \* inner loop: --attemptsLeft; await makeRequest(bulk)
                /\ isSendingEvents' = isSendingEvents
                /\ cycles' = Append(rest, nextAttempt(c))
                /\ lastOp' = [done EXCEPT !.flush = "retry"]
           ELSE \* the inner loop is left, by break or by its condition
                IF gaveUp(c)
                THEN \* attemptsLeft === 0: flag off, return false
                     /\ isSendingEvents' = FALSE
                     /\ cycles' = rest
                     /\ lastOp' = [done EXCEPT !.ret = "false"]
                ELSE IF Len(evs) > 0
                     THEN \* outer loop: the next batch
                          /\ isSendingEvents' = isSendingEvents
                          /\ cycles' =
                                 Append(rest, firstAttempt(evs, c.clean /\ ok))
                          /\ lastOp' = [done EXCEPT !.flush = "next"]
                     ELSE \* outer loop ends: flag off, return undefined
                          /\ isSendingEvents' = FALSE
                          /\ cycles' = rest
                          /\ lastOp' = [done EXCEPT !.ret = "undefined"]
        /\ streak' = streakAfter(events', isSendingEvents', FALSE)
        /\ UNCHANGED <<instance, config, lastScheduled, timers, now, nextId,
                       setups, ticks, created>>

\* Time passes; no handler runs.
Tick(d) ==
    /\ ticks < MaxTicks
    /\ ticks' = ticks + 1
    /\ now' = now + d
    /\ UNCHANGED <<instance, config, events, isSendingEvents, lastScheduled,
                   timers, cycles, nextId, setups, created, posted, streak,
                   lastOp>>

Next ==
    \/ \E o \in OptionsSet : Setup(o)
    \/ Get
    \/ Log
    \/ \E i \in 1..Len(timers) : TimerFires(i)
    \/ \E i \in 1..Len(cycles), ok \in BOOLEAN : RequestSettles(i, ok)
    \/ \E d \in {ShortTick, LongTick} : Tick(d)

Spec == Init /\ [][Next]_vars

\* The program run against a transport whose post always resolves:
\* makeRequest returns true every time.
NextOK ==
    \/ \E o \in OptionsSet : Setup(o)
    \/ Get
    \/ Log
    \/ \E i \in 1..Len(timers) : TimerFires(i)
    \/ \E i \in 1..Len(cycles) : RequestSettles(i, TRUE)
    \/ \E d \in {ShortTick, LongTick} : Tick(d)

SpecOK == Init /\ [][NextOK]_vars

\* Every transport call eventually resolves: the promise of axios.post
\* settles, so a suspended sendEvents() is eventually resumed.
Settles == \E i \in 1..Len(cycles), ok \in BOOLEAN : RequestSettles(i, ok)

SpecFair == Spec /\ WF_vars(Settles)

\* -------------------------------------------------------------- claims
\* The step is a run of the handler named op (a clock advance leaves lastOp
\* alone, a handler leaves the clock alone).
Ran(op) == now' = now /\ lastOp'.op = op

\* The set of the elements of a sequence.
Range(s) == { s[k] : k \in 1..Len(s) }

\* C1: when sendEvents drains after a successful makeRequest, the events it
\* removes from the buffer are exactly the events of the posted batch,
\* whatever log() calls (overflowing ones included) ran while the request
\* was in flight.
C1_DrainRemovesPostedBatch ==
    [][(Ran("settle") /\ lastOp'.ok) => events = lastOp'.bulk \o events']_vars

\* C2: at most one flush cycle is active and at most one transport call is
\* in flight at any time; a sendEvents invocation (timer callback or size
\* trigger) that starts while a cycle is suspended returns without changing
\* the buffer, the flag or the in-flight request, and leaves nothing queued.
C2_SingleFlushCycle ==
    /\ [](Len(cycles) <= 1)
    /\ [][(cycles # <<>> /\ (Ran("timer") \/ (Ran("log") /\ lastOp'.immediate)))
            => /\ cycles' = cycles
               /\ isSendingEvents' = isSendingEvents
               /\ posted' = posted
               /\ Ran("timer") => events' = events /\ Len(timers') < Len(timers)
               /\ Ran("log") => Len(events') <= Len(events) + 1
                                /\ Len(timers') <= Len(timers) + 1]_vars

C2_Witness ==
    lastOp.op = "timer" /\ lastOp.flush = "skipped" /\ Len(cycles) = 1

\* C3: after every log() call, whatever calls and flush steps came before,
\* the buffer holds at most maxUnsentEvents events.
C3_BufferBounded == Len(events) <= maxUnsentEvents

C3_Witness ==
    lastOp.op = "log" /\ lastOp.evicted /\ Len(events) = maxUnsentEvents

\* C4: log(e) on a buffer holding maxUnsentEvents events leaves the old
\* buffer without its first element followed by e; on a buffer holding
\* fewer it only appends e.
C4_LogEvictsOldestOnly ==
    [][Ran("log") =>
        IF Len(events) = maxUnsentEvents
        THEN events' = Tail(events) \o <<lastOp'.event>>
        ELSE /\ Len(events) < maxUnsentEvents
             /\ events' = events \o <<lastOp'.event>>]_vars

C4_Witness ==
    /\ lastOp.op = "log" /\ lastOp.evicted
    /\ events[Len(events)] = lastOp.event
    /\ events[1] > 1

\* The events of a are in the order of their log() calls.
InLogOrder(a) == \A j, k \in 1..Len(a) : j < k => a[j] < a[k]

\* What is left of batch b lies at the head of buffer a, and whatever of b
\* is gone was pushed out of a full buffer.
HeadHolds(a, b) ==
    LET gone == Cardinality(Range(b) \ Range(a))
    IN  /\ SubSeq(b, gone + 1, Len(b)) = SubSeq(a, 1, Len(b) - gone)
        /\ gone > 0 => Len(a) = maxUnsentEvents

\* A failed attempt is retried while fewer than maxAttempts were made and
\* ends the cycle, flag off and nothing in flight, at the maxAttempts-th;
\* it never changes the buffer.
FailurePath ==
    IF lastOp'.posts < maxAttempts
    THEN /\ Len(cycles') = 1
         /\ cycles'[1].bulk = lastOp'.bulk
         /\ cycles'[1].posts = lastOp'.posts + 1
         /\ isSendingEvents'
         /\ events' = events
    ELSE /\ lastOp'.posts = maxAttempts
         /\ cycles' = <<>>
         /\ ~isSendingEvents'
         /\ events' = events
         /\ InLogOrder(events')

\* C5 as stated: when every attempt for a batch fails, the cycle makes
\* exactly maxAttempts attempts for it and none for a later batch, ends with
\* the flag false, and the failed batch and every event after it are still
\* in the buffer in their original order.
C5_FailedBatchStillInBuffer ==
    [][(Ran("settle") /\ ~lastOp'.ok) =>
        /\ FailurePath
        /\ cycles' = <<>> =>
               SubSeq(events', 1, Len(lastOp'.bulk)) = lastOp'.bulk]_vars

\* C5 amended: ... and the cycle itself removes nothing: the buffer still
\* holds, in their original order, the failed batch and every event after
\* it except the events that overflowing log() calls evicted from the head
\* while the cycle ran.
C5_FailedCycleRemovesNothing ==
    [][(Ran("settle") /\ ~lastOp'.ok) =>
        /\ FailurePath
        /\ cycles' = <<>> => HeadHolds(events', lastOp'.bulk)]_vars

C5_Witness ==
    /\ lastOp.op = "settle" /\ ~lastOp.ok /\ lastOp.posts = maxAttempts
    /\ cycles = <<>> /\ ~isSendingEvents
    /\ lastOp.bulk[1] \notin Range(events)
    /\ lastOp.bulk[2] = events[1]

\* C6: when attempts 1 and 2 for a batch fail and attempt 3 succeeds, the
\* batch is removed from the buffer and no further delivery attempt is made
\* for that batch: no request in flight then or later carries one of its
\* events.
C6_ThirdAttemptDrains ==
    /\ [][(Ran("settle") /\ lastOp'.ok /\ lastOp'.posts = maxAttempts) =>
            /\ Range(lastOp'.bulk) \cap Range(events') = {}
            /\ \A k \in 1..Len(cycles') :
                   Range(cycles'[k].bulk) \cap Range(lastOp'.bulk) = {}]_vars
    /\ [](\A k \in 1..Len(cycles) :
              Range(cycles[k].bulk) \cap Range(posted) = {})

C6_Witness ==
    /\ lastOp.op = "settle" /\ lastOp.ok /\ lastOp.posts = maxAttempts
    /\ Range(lastOp.bulk) \subseteq Range(posted)

\* C7: a successful attempt, on whichever of the maxAttempts attempts, is
\* followed by the next batch when events remain: a cycle ends only because
\* the buffer is empty (returning no failure) or because a batch failed all
\* maxAttempts attempts (returning failure).
C7_CycleEndsEmptyOrExhausted ==
    [][(Ran("settle") /\ Len(cycles') < Len(cycles)) =>
        \/ events' = <<>> /\ lastOp'.ok /\ lastOp'.ret = "undefined"
        \/ /\ ~lastOp'.ok /\ lastOp'.posts = maxAttempts
           /\ lastOp'.ret = "false"]_vars

\* setup(o) on an existing instance takes a number-valued field from o when
\* o carries a non-zero value for it and a string-valued field when o
\* carries a non-empty one, and keeps the field otherwise.
NumberKept(o, f, old, new) ==
    new = IF f \in DOMAIN o /\ o[f] # 0 THEN o[f] ELSE old
StringKept(o, f, old, new) ==
    new = IF f \in DOMAIN o /\ o[f] # "" THEN o[f] ELSE old

\* C8 as stated: a second setup whose options carry only batchInterval
\* leaves apiKey, receiverURL and minBatchSize as they were and changes only
\* batchInterval; setup on an existing instance overrides a configuration
\* field only when the options carry a truthy value for it.
C8_SetupOverridesTruthyOnly ==
    [][\A o \in OptionsSet : (instance /\ Setup(o)) =>
        /\ StringKept(o, "apiKey", apiKey, apiKey')
        /\ StringKept(o, "receiverURL", receiverURL, receiverURL')
        /\ NumberKept(o, "batchInterval", batchInterval, batchInterval')
        /\ NumberKept(o, "minBatchSize", minBatchSize, minBatchSize')
        /\ DOMAIN o = {"batchInterval"} =>
               /\ apiKey' = apiKey
               /\ receiverURL' = receiverURL
               /\ minBatchSize' = minBatchSize
               /\ batchInterval' = o["batchInterval"]]_vars

\* C8 amended: setup on an existing instance overrides receiverURL,
\* batchInterval and minBatchSize only when the options carry a truthy value
\* for them, and always assigns apiKey from the options; so a second setup
\* whose options carry only batchInterval keeps receiverURL and
\* minBatchSize, changes batchInterval and leaves apiKey undefined.
C8_SetupOverridesApiKeyAlways ==
    [][\A o \in OptionsSet : (instance /\ Setup(o)) =>
        /\ apiKey' = IF "apiKey" \in DOMAIN o THEN o["apiKey"] ELSE Undefined
        /\ StringKept(o, "receiverURL", receiverURL, receiverURL')
        /\ NumberKept(o, "batchInterval", batchInterval, batchInterval')
        /\ NumberKept(o, "minBatchSize", minBatchSize, minBatchSize')
        /\ DOMAIN o = {"batchInterval"} =>
               /\ apiKey' = Undefined
               /\ receiverURL' = receiverURL
               /\ minBatchSize' = minBatchSize
               /\ batchInterval' = o["batchInterval"]]_vars

C8_Witness ==
    /\ lastOp.op = "setup" /\ lastOp.ret = "existing"
    /\ batchInterval # DefaultBatchInterval
    /\ receiverURL # DefaultReceiverURL
    /\ minBatchSize # DefaultMinBatchSize
    /\ apiKey = Undefined

\* A row of log() calls from an empty buffer with no flush running: before
\* the minBatchSize-th call no cycle runs, and that call starts one.
\* (The calls follow one another: no timer callback, settled request or
\* setup runs between them.)
RowOfLogs(sizes) ==
    (Ran("log") /\ streak # Broken) =>
        /\ streak + 1 < minBatchSize => cycles' = <<>> /\ ~isSendingEvents'
        /\ (streak + 1 = minBatchSize /\ minBatchSize \in sizes) =>
               /\ cycles = <<>> /\ Len(cycles') = 1
               /\ isSendingEvents'
               /\ cycles'[1].bulk = SubSeq(events', 1, Len(cycles'[1].bulk))

\* A cycle whose transport calls all succeeded ends on an empty buffer.
CleanCycleEmpties ==
    (Ran("settle") /\ Len(cycles) = 1 /\ cycles[1].clean /\ lastOp'.ok
        /\ cycles' = <<>>) => events' = <<>>

\* C9 as stated: from an empty buffer with no flush running and a transport
\* that always succeeds, logging exactly minBatchSize events triggers
\* exactly one flush cycle, at the minBatchSize-th log() call, and the
\* buffer is empty once that cycle ends.
C9_MinBatchLogsFlushOnce ==
    [][RowOfLogs(Int) /\ CleanCycleEmpties]_vars

\* C9 amended: ... provided minBatchSize is at most maxUnsentEvents (a
\* larger minBatchSize is never reached by the buffer length).
C9_MinBatchWithinBufferFlushOnce ==
    [][RowOfLogs(1..maxUnsentEvents) /\ CleanCycleEmpties]_vars

C9_Witness ==
    /\ lastOp.op = "log" /\ lastOp.event > 1
    /\ streak = minBatchSize
    /\ Len(cycles) = 1 /\ isSendingEvents

\* No log() call settles a transport call: it leaves the requests in flight
\* as they are or adds the first one of a cycle it starts.
LogSettlesNothing ==
    Ran("log") =>
        /\ posted' = posted
        /\ cycles' = cycles \/ (cycles = <<>> /\ Len(cycles') = 1)

\* C10 as stated: a log() call that takes the immediate-flush path has not
\* returned before the flush cycle it started has completed, retries
\* included; every other log() call returns without waiting for a transport
\* call.
C10_ImmediateLogWaitsForCycle ==
    /\ []((lastOp.op = "log" /\ lastOp.flush = "started") =>
              cycles = <<>> /\ ~isSendingEvents)
    /\ [][LogSettlesNothing]_vars

\* C10 amended: a log() call that takes the immediate-flush path and starts
\* a cycle returns once the first transport call of that cycle has been
\* issued, with the cycle still running and its batch still in the buffer;
\* no log() call waits for a transport call to settle.
C10_ImmediateLogReturnsInFlight ==
    /\ []((lastOp.op = "log" /\ lastOp.flush = "started") =>
              /\ Len(cycles) = 1
              /\ isSendingEvents
              /\ cycles[1].posts = 1
              /\ cycles[1].bulk = SubSeq(events, 1, Len(cycles[1].bulk))
              /\ Range(cycles[1].bulk) \cap Range(posted) = {})
    /\ [][LogSettlesNothing]_vars

C10_Witness ==
    /\ lastOp.op = "log" /\ lastOp.immediate /\ lastOp.flush = "started"
    /\ Len(cycles) = 1 /\ cycles[1].bulk # <<>>

\* C11: get() throws in every state where setup has never been called;
\* after any setup call get() returns the instance the first setup created;
\* later setup calls return that instance and never construct a second one.
C11_SingletonLifecycle ==
    /\ [](created <= 1 /\ (instance <=> created = 1)
                       /\ (instance <=> setups > 0))
    /\ [][Ran("get") =>
            /\ lastOp'.ret = IF setups = 0 THEN "throws" ELSE "instance"
            /\ instance' = instance /\ created' = created]_vars
    /\ [][Ran("setup") =>
            /\ instance' /\ created' = 1
            /\ lastOp'.ret = IF setups = 0 THEN "created" ELSE "existing"]_vars

C11_Witness ==
    /\ lastOp.op = "get" /\ lastOp.ret = "instance"
    /\ setups = MaxSetups /\ created = 1

\* Milliseconds since the last arming (lastScheduled holds the Date.now()
\* of that log() call).
Elapsed == now - lastScheduled

\* C12: a log() call arms a one-shot timer for batchInterval and records
\* the current time as last-scheduled whenever no timer was ever armed or
\* the time since the last arming exceeds batchInterval, both taken in
\* milliseconds (the unit setTimeout gives batchInterval).
C12_ArmsWhenIntervalElapsed ==
    [][Ran("log") =>
        ((lastScheduled = NeverScheduled \/ Elapsed > batchInterval) =>
            /\ timers' = Append(timers, now + batchInterval)
            /\ lastScheduled' = now)]_vars

\* batchInterval has not changed: the options of this model only ever raise
\* it from its default.
IntervalUnchanged == batchInterval = DefaultBatchInterval

\* A log() call within batchInterval milliseconds of the last arming arms
\* nothing.
NoArmingInWindow ==
    (Ran("log") /\ lastScheduled # NeverScheduled /\ Elapsed <= batchInterval)
        => timers' = timers /\ lastScheduled' = lastScheduled

\* C13 as stated: with batchInterval unchanged, the log() calls within one
\* batchInterval window after an arming arm no further timer, so at most
\* one armed timer is pending at any time.
C13_OneTimerPending ==
    /\ [][NoArmingInWindow]_vars
    /\ [](IntervalUnchanged => Len(timers) <= 1)

\* C13 amended: ... arm no further timer, so at most one timer that is not
\* yet due is pending at any time, and pending timers were armed more than
\* 1000 * batchInterval milliseconds apart (a timer whose callback has not
\* run by then can be pending together with a newer one).
C13_OneTimerNotYetDue ==
    /\ [][NoArmingInWindow]_vars
    /\ [](IntervalUnchanged =>
            /\ Cardinality({k \in 1..Len(timers) : timers[k] > now}) <= 1
            /\ \A j, k \in 1..Len(timers) :
                   j < k => timers[k] - timers[j]
                                > MillisPerSecond * batchInterval)

C13_Witness ==
    /\ lastOp.op = "log" /\ ~lastOp.armed /\ lastOp.event > 1
    /\ IntervalUnchanged
    /\ Len(timers) = 1 /\ timers[1] > now
    /\ Elapsed <= batchInterval

\* C14: isSendingEvents is true in every state in which a flush cycle is
\* between its entry and its exit (an invocation of sendEvents is suspended
\* on a transport call), over all its batches and retries, and false in
\* every other state, however the cycle exits.
C14_FlagTracksCycle == isSendingEvents <=> cycles # <<>>

C14_Witness ==
    /\ lastOp.op = "settle" /\ lastOp.ok /\ lastOp.posts = maxAttempts
    /\ events # <<>>
    /\ ~isSendingEvents /\ cycles = <<>>

\* C15: log() requests an immediate flush exactly when the buffer length
\* after the append and any eviction equals minBatchSize; a call that
\* leaves the length below or above it requests none.
C15_SizeTriggerIsEquality ==
    [][Ran("log") =>
        LET hit == Len(events') = minBatchSize
        IN  /\ lastOp'.immediate <=> hit
            /\ ~hit => cycles' = cycles /\ isSendingEvents' = isSendingEvents
            /\ (hit /\ ~isSendingEvents) =>
                   Len(cycles') = Len(cycles) + 1 /\ isSendingEvents']_vars

C15_Witness ==
    /\ lastOp.op = "log" /\ ~lastOp.immediate
    /\ Len(events) > minBatchSize
    /\ cycles = <<>> /\ ~isSendingEvents

\* The step takes a batch: it issues the first transport call for a bulk.
TakesBatch ==
    /\ cycles' # <<>> /\ cycles' # cycles
    /\ cycles'[Len(cycles')].posts = 1

\* C16: every transport call carries the first min(length, maxBulkSize)
\* events of the buffer as it was when the batch was taken, hence between 1
\* and maxBulkSize events; a flush that starts on an empty buffer issues no
\* transport call; every retry resends the same snapshot.
C16_BatchIsBoundedPrefix ==
    /\ [](\A k \in 1..Len(cycles) :
              Len(cycles[k].bulk) \in 1..maxBulkSize)
    /\ [][TakesBatch =>
            cycles'[Len(cycles')].bulk =
                SubSeq(events', 1, Min(Len(events'), maxBulkSize))]_vars
    /\ [][(Ran("timer") /\ events = <<>>) =>
            cycles' = cycles /\ posted' = posted]_vars
    /\ [][(Ran("settle") /\ ~lastOp'.ok /\ cycles' # <<>>) =>
            /\ cycles'[Len(cycles')].bulk = lastOp'.bulk
            /\ cycles'[Len(cycles')].posts = lastOp'.posts + 1]_vars

C16_Witness ==
    /\ lastOp.op = "timer" /\ events = <<>> /\ cycles = <<>>
    /\ Len(posted) > maxBulkSize

\* C17: setup on an existing instance leaves the buffered events, the
\* flag, the last-scheduled time, an in-flight cycle and the pending timers
\* as they are; a timer armed before it still runs sendEvents when it fires.
C17_SetupLeavesDispatcherAlone ==
    /\ [][(Ran("setup") /\ instance) =>
            UNCHANGED <<events, isSendingEvents, lastScheduled, cycles,
                        timers, posted>>]_vars
    /\ [][(Ran("timer") /\ ~isSendingEvents /\ events # <<>>) =>
            /\ Len(timers') = Len(timers) - 1
            /\ isSendingEvents' /\ Len(cycles') = 1
            /\ cycles'[1].bulk = SubSeq(events, 1, Len(cycles'[1].bulk))]_vars

C17_Witness ==
    /\ lastOp.op = "timer" /\ isSendingEvents /\ Len(cycles) = 1
    /\ cycles[1].posts = 1 /\ timers = <<>>
    /\ batchInterval # DefaultBatchInterval
    /\ now < lastScheduled + batchInterval

\* C18: with a transport that always succeeds, whenever the buffer is
\* non-empty and no flush cycle is running a flush timer is pending, so
\* every accepted event is eventually delivered or evicted without a
\* further log() call.
C18_IdleBufferHasTimer ==
    (events # <<>> /\ cycles = <<>> /\ ~isSendingEvents) => timers # <<>>

\* C19: the concatenation of all successfully posted batches, in the order
\* the posts succeeded, holds each logged event at most once and in the
\* order the events were logged.
C19_PostedInLogOrder ==
    /\ InLogOrder(posted)
    /\ \A k \in 1..Len(posted) : posted[k] \in 1..(nextId - 1)

C19_Witness ==
    /\ Len(posted) > maxBulkSize
    /\ \E k \in 1..(Len(posted) - 1) : posted[k + 1] > posted[k] + 1

\* C20: if every transport call eventually resolves and only finitely many
\* log() calls occur, every flush cycle that starts eventually ends with
\* isSendingEvents false, after at most maxAttempts transport calls per
\* batch.
C20_CycleTerminates ==
    /\ [](\A k \in 1..Len(cycles) : cycles[k].posts \in 1..maxAttempts)
    /\ [][(Ran("settle") /\ lastOp'.posts = maxAttempts) =>
            cycles' = <<>> /\ ~isSendingEvents']_vars
    /\ (cycles # <<>>) ~> (cycles = <<>> /\ ~isSendingEvents)

C20_Witness ==
    /\ lastOp.op = "settle" /\ ~lastOp.ok /\ lastOp.posts = maxAttempts
    /\ cycles = <<>> /\ ~isSendingEvents /\ events # <<>>
====
